---------------------------- MODULE Spec2Model ----------------------------
(***************************************************************************)
(* A model of the simple arbitrage bot: the per-venue order book           *)
(* (src/src/exchange.rs), the two venue adapters (src/src/exchange/aevo.rs *)
(* and dydx.rs), and the two decision loops found in the sources:          *)
(* run_bot (src/src/bot.rs) and main (src/src/main.rs).                    *)
(*                                                                         *)
(* Venue 0 is Aevo and venue 1 is DyDx, the keys run_bot gives them in its *)
(* StreamMap.  A Decimal is a normalised fraction <<n, d>> with d > 0, so  *)
(* +, -, *, / and the comparisons are exact; rust_decimal rounds a         *)
(* quotient at its 28th fractional digit, which is below the resolution of *)
(* this model.  An Option is a sequence of length at most one.             *)
(***************************************************************************)
EXTENDS Integers, Sequences, FiniteSets, TLC

VARIABLES
    order_book,           \* order_book[v]: the adapter's OrderBook {bids, asks}
    channel,              \* channel[v]: the adapter's mpsc queue of raw messages
    update,               \* update[v]: the last OrderBookMessage poll_next built (Option)
    best_prices,          \* run_bot: vec![(None, None), (None, None)]
    aevo_prices,          \* main: let mut aevo_prices = (None, None)
    dydx_prices,          \* main: let mut dydx_prices = (None, None)
    wallets_initialized,
    aevo_wallet,
    dydx_wallet,
    trade,                \* the trade the last pass logged (Option)
    pc,                   \* "running", "panicked" or "blocked" (decision loop)
    config,               \* persistent_trades, aevo_fee, dydx_fee, starting_value
    nmsgs,                \* frames the venues have delivered so far
    ntrades,              \* trades executed so far
    feed                  \* feed[v]: the handle_wss task of venue v

vars == <<order_book, channel, update, best_prices, aevo_prices, dydx_prices,
          wallets_initialized, aevo_wallet, dydx_wallet, trade, pc, config,
          nmsgs, ntrades, feed>>

-----------------------------------------------------------------------------
(* Bounds of the model *)

MaxMsgs == 3
QueueCap == 2
MaxTrades == 2

Venues == {0, 1}
Other(v) == 1 - v

-----------------------------------------------------------------------------
(* rust_decimal::Decimal as an exact fraction *)

Abs(n) == IF n < 0 THEN -n ELSE n

RECURSIVE GCD(_, _)
GCD(a, b) == IF b = 0 THEN a ELSE GCD(b, a % b)

Norm(n, d) ==
    IF n = 0 THEN <<0, 1>>
    ELSE LET g == GCD(Abs(n), d) IN <<n \div g, d \div g>>

Dec(n) == <<n, 1>>
Frac(n, d) == Norm(n, d)

DAdd(x, y) == Norm(x[1] * y[2] + y[1] * x[2], x[2] * y[2])
DSub(x, y) == Norm(x[1] * y[2] - y[1] * x[2], x[2] * y[2])
DMul(x, y) == Norm(x[1] * y[1], x[2] * y[2])
DDiv(x, y) ==
    IF y[1] > 0 THEN Norm(x[1] * y[2], x[2] * y[1])
    ELSE Norm(-(x[1] * y[2]), x[2] * (-y[1]))
DLt(x, y) == x[1] * y[2] < y[1] * x[2]
DLe(x, y) == x[1] * y[2] <= y[1] * x[2]
DMin(x, y) == IF DLt(y, x) THEN y ELSE x
DMax(x, y) == IF DLt(x, y) THEN y ELSE x
DIsZero(x) == x[1] = 0

-----------------------------------------------------------------------------
(* BookEntry, OrderBook, OrderBookMessage (exchange.rs) *)

BookEntry(p, a) == [price |-> p, amount |-> a]

OrderBookNew == [bids |-> <<>>, asks |-> <<>>]

best_ask(book) == IF book.asks = <<>> THEN <<>> ELSE <<book.asks[1]>>

best_bid(book) == IF book.bids = <<>> THEN <<>> ELSE <<book.bids[1]>>

Snapshot(bids, asks) == [kind |-> "Snapshot", bids |-> bids, asks |-> asks]
BidUpdate(entry) == [kind |-> "BidUpdate", bids |-> <<entry>>, asks |-> <<>>]
AskUpdate(entry) == [kind |-> "AskUpdate", bids |-> <<>>, asks |-> <<entry>>]

\* iter().position(|e| e.price == price): the first index, 0 for None
Position(side, price) ==
    LET hits == {i \in 1..Len(side) : side[i].price = price}
    IN  IF hits = {} THEN 0
        ELSE CHOOSE i \in hits : \A j \in hits : i <= j

\* Vec::remove(index)
RemoveAt(side, i) == SubSeq(side, 1, i - 1) \o SubSeq(side, i + 1, Len(side))

\* One step of a stable sort: e goes behind every entry that does not come
\* strictly after it (desc: by falling price, otherwise by rising price).
InsertSorted(sorted, e, desc) ==
    LET stay == {i \in 1..Len(sorted) :
                    IF desc THEN ~DLt(sorted[i].price, e.price)
                    ELSE ~DLt(e.price, sorted[i].price)}
        k == Cardinality(stay)
    IN  SubSeq(sorted, 1, k) \o <<e>> \o SubSeq(sorted, k + 1, Len(sorted))

\* Vec::sort_by (a stable sort) on the price
RECURSIVE SortByPrice(_, _)
SortByPrice(side, desc) ==
    IF side = <<>> THEN <<>>
    ELSE InsertSorted(SortByPrice(SubSeq(side, 1, Len(side) - 1), desc),
                      side[Len(side)], desc)

\* update_bids without the sort_by after the push
update_bids_unsorted(bids, entry) ==
    LET index == Position(bids, entry.price)
    IN  IF DIsZero(entry.amount)
        THEN IF index # 0 THEN RemoveAt(bids, index) ELSE bids
        ELSE IF index # 0
             THEN [bids EXCEPT ![index].amount = entry.amount]
             ELSE Append(bids, entry)

\* OrderBook::update, the BidUpdate arm
update_bids(bids, entry) ==
    LET index == Position(bids, entry.price)
    IN  IF DIsZero(entry.amount)
        THEN IF index # 0 THEN RemoveAt(bids, index) ELSE bids
        ELSE IF index # 0
             THEN [bids EXCEPT ![index].amount = entry.amount]
             ELSE SortByPrice(Append(bids, entry), TRUE)

\* OrderBook::update, the AskUpdate arm
update_asks(asks, entry) ==
    LET index == Position(asks, entry.price)
    IN  IF DIsZero(entry.amount)
        THEN IF index # 0 THEN RemoveAt(asks, index) ELSE asks
        ELSE IF index # 0
             THEN [asks EXCEPT ![index].amount = entry.amount]
             ELSE SortByPrice(Append(asks, entry), FALSE)

\* OrderBook::update
OrderBookUpdate(book, msg) ==
    CASE msg.kind = "Snapshot" -> [bids |-> msg.bids, asks |-> msg.asks]
      [] msg.kind = "BidUpdate" ->
            [book EXCEPT !.bids = update_bids(book.bids, msg.bids[1])]
      [] msg.kind = "AskUpdate" ->
            [book EXCEPT !.asks = update_asks(book.asks, msg.asks[1])]

-----------------------------------------------------------------------------
(* Wallet (exchange.rs) *)

WalletNew(initial_amount) == [base |-> Dec(0), quote |-> initial_amount]

\* Wallet::rebalance: self.quote /= 2; self.base = self.quote / price
rebalance(wallet, price) ==
    LET quote == DDiv(wallet.quote, Dec(2))
    IN  [base |-> DDiv(quote, price), quote |-> quote]

\* buy without the max(dec!(0)) on the new quote amount
buy_unclamped(fee_rate, amount, price, wallet) ==
    LET fee_paid == DMul(DMul(price, amount), fee_rate)
    IN  [base |-> DAdd(wallet.base, amount),
         quote |-> DSub(DSub(wallet.quote, DMul(price, amount)), fee_paid)]

\* buy that charges no fee
buy_no_fee(fee_rate, amount, price, wallet) ==
    [base |-> DAdd(wallet.base, amount),
     quote |-> DMax(DSub(wallet.quote, DMul(price, amount)), Dec(0))]

\* Exchange::buy, the wallet it returns
buy(fee_rate, amount, price, wallet) ==
    LET fee_paid == DMul(DMul(price, amount), fee_rate)
        new_base_amount == DAdd(wallet.base, amount)
        new_quote_amount == DSub(DSub(wallet.quote, DMul(price, amount)), fee_paid)
    IN  [base |-> new_base_amount, quote |-> DMax(new_quote_amount, Dec(0))]

\* sell that charges no fee
sell_no_fee(fee_rate, amount, price, wallet) ==
    [base |-> DSub(wallet.base, amount),
     quote |-> DAdd(wallet.quote, DMul(price, amount))]

\* sell that leaves the base balance as it was
sell_base_kept(fee_rate, amount, price, wallet) ==
    LET fee_paid == DMul(DMul(price, amount), fee_rate)
    IN  [base |-> wallet.base,
         quote |-> DSub(DAdd(wallet.quote, DMul(price, amount)), fee_paid)]

\* Exchange::sell, the wallet it returns
sell(fee_rate, amount, price, wallet) ==
    LET fee_paid == DMul(DMul(price, amount), fee_rate)
        new_base_amount == DSub(wallet.base, amount)
        new_quote_amount == DSub(DAdd(wallet.quote, DMul(price, amount)), fee_paid)
    IN  [base |-> new_base_amount, quote |-> new_quote_amount]

-----------------------------------------------------------------------------
(* The venue adapters (aevo.rs, dydx.rs) *)

\* Exchange::fee of venue v
fee(v) == IF v = 0 THEN config.aevo_fee ELSE config.dydx_fee

\* Aevo's BookRawMessage: msg_type, bids, asks
AevoRaw(msg_type, bids, asks) == [msg_type |-> msg_type, bids |-> bids, asks |-> asks]

\* DyDx's BookRawMessage: contents, a map from "bids" / "asks" to levels;
\* keys is the set of keys the map holds
DyDxRaw(keys, bids, asks) == [keys |-> keys, bids |-> bids, asks |-> asks]

\* Aevo::poll_next on a received message: the OrderBookMessage it builds,
\* <<>> where it panics (an unknown type, msg.bids[0] of an empty vector)
AevoTranslate(msg) ==
    CASE msg.msg_type = "snapshot" -> <<Snapshot(msg.bids, msg.asks)>>
      [] msg.msg_type = "update" ->
            IF msg.asks = <<>>
            THEN IF msg.bids = <<>> THEN <<>> ELSE <<BidUpdate(msg.bids[1])>>
            ELSE <<AskUpdate(msg.asks[1])>>
      [] OTHER -> <<>>

\* Aevo::poll_next, Poll::Ready(Some(msg)): the book and the item it yields
Aevo_poll_next(book, msg) ==
    LET upd == AevoTranslate(msg)
        new_book == IF upd = <<>> THEN book ELSE OrderBookUpdate(book, upd[1])
    IN  [panic |-> upd = <<>>,
         update |-> upd,
         book |-> new_book,
         item |-> <<best_bid(new_book), best_ask(new_book)>>]

\* DyDx::poll_next: the match on (contains_key("asks"), contains_key("bids"))
DyDxTranslate(msg) ==
    CASE "asks" \in msg.keys /\ "bids" \in msg.keys ->
            [panic |-> FALSE, update |-> <<Snapshot(msg.bids, msg.asks)>>]
      [] "asks" \notin msg.keys /\ "bids" \in msg.keys ->
            IF msg.bids = <<>> THEN [panic |-> TRUE, update |-> <<>>]
            ELSE [panic |-> FALSE, update |-> <<BidUpdate(msg.bids[1])>>]
      [] "asks" \in msg.keys /\ "bids" \notin msg.keys ->
            IF msg.asks = <<>> THEN [panic |-> TRUE, update |-> <<>>]
            ELSE [panic |-> FALSE, update |-> <<AskUpdate(msg.asks[1])>>]
      [] OTHER -> [panic |-> FALSE, update |-> <<>>]

\* DyDx::poll_next, Poll::Ready(Some(msg)): the book and the item it yields
DyDx_poll_next(book, msg) ==
    LET t == DyDxTranslate(msg)
        new_book == IF t.update = <<>> THEN book
                    ELSE OrderBookUpdate(book, t.update[1])
    IN  [panic |-> t.panic,
         update |-> t.update,
         book |-> new_book,
         item |-> <<best_ask(new_book), best_bid(new_book)>>]

poll_next(v, book, msg) ==
    IF v = 0 THEN Aevo_poll_next(book, msg) ELSE DyDx_poll_next(book, msg)

\* The level update a persistent-trade hook builds for venue v
AskLevelRaw(v, entry) ==
    IF v = 0 THEN AevoRaw("update", <<>>, <<entry>>)
    ELSE DyDxRaw({"asks"}, <<>>, <<entry>>)

BidLevelRaw(v, entry) ==
    IF v = 0 THEN AevoRaw("update", <<entry>>, <<>>)
    ELSE DyDxRaw({"bids"}, <<entry>>, <<>>)

\* handle_persistent_buy of venue v: the message it sends, <<>> for none
handle_persistent_buy(v, book, amount, price) ==
    IF ~config.persistent_trades THEN <<>>
    ELSE IF best_ask(book) = <<>> THEN <<>>
    ELSE <<AskLevelRaw(v, BookEntry(price, DSub(best_ask(book)[1].amount, amount)))>>

\* handle_persistent_sell of venue v: the message it sends, <<>> for none
handle_persistent_sell(v, book, amount, price) ==
    IF ~config.persistent_trades THEN <<>>
    ELSE IF best_bid(book) = <<>> THEN <<>>
    ELSE <<BidLevelRaw(v, BookEntry(price, DSub(best_bid(book)[1].amount, amount)))>>

\* mpsc::Sender::send(..).await on the bounded channel: the queues after the
\* send, and whether the sender is left waiting for room
Send(ch, v, sent) ==
    IF sent = <<>> THEN [channel |-> ch, blocked |-> FALSE]
    ELSE IF Len(ch[v]) >= QueueCap THEN [channel |-> ch, blocked |-> TRUE]
    ELSE [channel |-> [ch EXCEPT ![v] = Append(@, sent[1])], blocked |-> FALSE]

-----------------------------------------------------------------------------
(* The decision engine of run_bot (bot.rs) *)

Complete(item) == item[1] # <<>> /\ item[2] # <<>>

\* calculate_spread(ask, bid)
calculate_spread(ask, bid) ==
    DDiv(DSub(bid, ask), DDiv(DAdd(bid, ask), Dec(2)))

\* is_profitable without the two fees
is_profitable_gross(amount, sell_price, buy_price, sell_fee, buy_fee) ==
    DLt(Dec(0), DSub(DMul(amount, sell_price), DMul(amount, buy_price)))

\* is_profitable without the fee of the sell
is_profitable_no_sell_fee(amount, sell_price, buy_price, sell_fee, buy_fee) ==
    LET sell_value == DMul(amount, sell_price)
        buy_value == DMul(amount, buy_price)
    IN  DLt(Dec(0),
            DSub(DSub(sell_value, buy_value), DMul(buy_value, buy_fee)))

\* is_profitable(amount, sell_price, buy_price, sell_fee, buy_fee)
is_profitable(amount, sell_price, buy_price, sell_fee, buy_fee) ==
    LET sell_value == DMul(amount, sell_price)
        buy_value == DMul(amount, buy_price)
    IN  DLt(Dec(0),
            DSub(DSub(DSub(sell_value, buy_value), DMul(sell_value, sell_fee)),
                 DMul(buy_value, buy_fee)))

\* The amount without the cap at the base balance of the selling wallet
strategy_amount_uncapped(exc1_prices, exc2_prices, exc1_wallet, exc2_wallet) ==
    LET amount == DMin(exc1_prices.amount, exc2_prices.amount)
        max_quote_amount == DMin(exc1_wallet.quote,
                                 DMul(amount, exc1_prices.price))
    IN  DDiv(max_quote_amount, exc1_prices.price)

\* The amount without the cap at the quote balance of the buying wallet
strategy_amount_no_quote_cap(exc1_prices, exc2_prices, exc1_wallet, exc2_wallet) ==
    LET amount == DMin(exc1_prices.amount,
                       DMin(exc2_prices.amount, exc2_wallet.base))
    IN  DDiv(DMul(amount, exc1_prices.price), exc1_prices.price)

\* run_strategy: the amount it trades (bot.rs lines 177-184)
strategy_amount(exc1_prices, exc2_prices, exc1_wallet, exc2_wallet) ==
    LET amount == DMin(exc1_prices.amount,
                       DMin(exc2_prices.amount, exc2_wallet.base))
        max_quote_amount == DMin(exc1_wallet.quote,
                                 DMul(amount, exc1_prices.price))
    IN  DDiv(max_quote_amount, exc1_prices.price)

\* run_strategy: the guard of its early return (bot.rs lines 186-196)
strategy_skips(exc1, exc2, amount, exc1_prices, exc2_prices) ==
    \/ DIsZero(amount)
    \/ ~is_profitable(amount, exc2_prices.price, exc1_prices.price,
                      fee(exc2), fee(exc1))

\* run_strategy: buy on exc1, sell on exc2.  The result holds the two wallets,
\* the queues after the persistent-trade hooks, whether a hook is left
\* waiting on a full queue, and the trade that was logged.
run_strategy(exc1, exc2, exc1_prices, exc2_prices, exc1_wallet, exc2_wallet, books, ch) ==
    LET amount == strategy_amount(exc1_prices, exc2_prices, exc1_wallet, exc2_wallet)
        s1 == Send(ch, exc1,
                   handle_persistent_buy(exc1, books[exc1], amount, exc1_prices.price))
        s2 == Send(s1.channel, exc2,
                   handle_persistent_sell(exc2, books[exc2], amount, exc2_prices.price))
    IN  IF strategy_skips(exc1, exc2, amount, exc1_prices, exc2_prices)
        THEN [exc1_wallet |-> exc1_wallet, exc2_wallet |-> exc2_wallet,
              channel |-> ch, blocked |-> FALSE, trade |-> <<>>]
        ELSE IF s1.blocked
        THEN [exc1_wallet |-> exc1_wallet, exc2_wallet |-> exc2_wallet,
              channel |-> ch, blocked |-> TRUE, trade |-> <<>>]
        ELSE IF s2.blocked
        THEN [exc1_wallet |-> exc1_wallet, exc2_wallet |-> exc2_wallet,
              channel |-> s1.channel, blocked |-> TRUE, trade |-> <<>>]
        ELSE [exc1_wallet |-> buy(fee(exc1), amount, exc1_prices.price, exc1_wallet),
              exc2_wallet |-> sell(fee(exc2), amount, exc2_prices.price, exc2_wallet),
              channel |-> s2.channel, blocked |-> FALSE,
              trade |-> <<[buy |-> exc1, sell |-> exc2, amount |-> amount,
                           buy_price |-> exc1_prices.price,
                           sell_price |-> exc2_prices.price]>>]

\* The guard run_bot waits on before its first pass (bot.rs lines 43-48)
books_empty(prices) == \A v \in Venues : prices[v][1] = <<>> /\ prices[v][2] = <<>>

\* Iterator::min_by over best_prices on the ask: the first of equal minima
min_by_ask(prices) ==
    IF DLt(prices[1][2][1].price, prices[0][2][1].price) THEN 1 ELSE 0

\* max_by_bid keeping the first of equal maxima
max_by_bid_first(prices) ==
    IF DLt(prices[0][1][1].price, prices[1][1][1].price) THEN 1 ELSE 0

\* Iterator::max_by over best_prices on the bid: the last of equal maxima
max_by_bid(prices) ==
    IF DLt(prices[1][1][1].price, prices[0][1][1].price) THEN 0 ELSE 1

\* same_exchange with the check left out
same_exchange_never(bid_key, ask_key) == FALSE

\* The check that best_bid and best_ask are on one venue (bot.rs lines 88-91)
same_exchange(bid_key, ask_key) == bid_key = ask_key

\* The wallets after the rebalance of a pass (bot.rs lines 53-58)
pass_wallet(wallet, price) ==
    IF wallets_initialized THEN wallet ELSE rebalance(wallet, price)

\* One turn of run_bot's loop on the item (key, item) (bot.rs lines 37-123):
\* the values of the loop's variables after it.
run_bot_body(key, item, books, ch) ==
    LET prices == [best_prices EXCEPT ![key] = item]
        same == [best_prices |-> best_prices,
                 wallets_initialized |-> wallets_initialized,
                 aevo_wallet |-> aevo_wallet, dydx_wallet |-> dydx_wallet,
                 channel |-> ch, trade |-> <<>>, pc |-> "running"]
    IN  IF ~Complete(item) THEN same
        ELSE IF books_empty(prices) THEN [same EXCEPT !.best_prices = prices]
        ELSE IF prices[0][1] = <<>>
        THEN [same EXCEPT !.best_prices = prices, !.pc = "panicked"]
        ELSE
        LET curr_base_price == prices[0][1][1].price
            w0 == pass_wallet(aevo_wallet, curr_base_price)
            w1 == pass_wallet(dydx_wallet, curr_base_price)
            ready == [same EXCEPT !.best_prices = prices,
                                  !.wallets_initialized = TRUE,
                                  !.aevo_wallet = w0, !.dydx_wallet = w1]
        IN  IF \E v \in Venues : prices[v][2] = <<>> \/ prices[v][1] = <<>>
            THEN [ready EXCEPT !.pc = "panicked"]
            ELSE
            LET ask_key == min_by_ask(prices)
                bid_key == max_by_bid(prices)
                ask == prices[ask_key][2][1]
                bid == prices[bid_key][1][1]
                r == IF ask_key = 0
                     THEN run_strategy(0, 1, ask, bid, w0, w1, books, ch)
                     ELSE run_strategy(1, 0, ask, bid, w1, w0, books, ch)
            IN  IF same_exchange(bid_key, ask_key) THEN ready
                ELSE IF ~DLt(Dec(0), calculate_spread(ask.price, bid.price))
                THEN ready
                ELSE [ready EXCEPT
                        !.aevo_wallet = IF ask_key = 0 THEN r.exc1_wallet
                                        ELSE r.exc2_wallet,
                        !.dydx_wallet = IF ask_key = 0 THEN r.exc2_wallet
                                        ELSE r.exc1_wallet,
                        !.channel = r.channel,
                        !.trade = r.trade,
                        !.pc = IF r.blocked THEN "blocked" ELSE "running"]

-----------------------------------------------------------------------------
(* The decision loop of main (main.rs) *)

\* The amount of a branch of main (main.rs lines 73-79 and 122-128)
main_amount(level1, level2, buy_wallet, sell_wallet, curr_base_price) ==
    LET amount == DMin(level1.amount, level2.amount)
        max_amount_quote == DMin(buy_wallet.quote, DMul(amount, curr_base_price))
        amount_quote == DMin(max_amount_quote,
                             DMul(sell_wallet.base, curr_base_price))
    IN  DDiv(amount_quote, curr_base_price)

\* One turn of main's loop after the select! (main.rs lines 47-168), on the
\* values prices_a, prices_d of aevo_prices and dydx_prices.
main_body(prices_a, prices_d, books, ch) ==
    LET same == [wallets_initialized |-> wallets_initialized,
                 aevo_wallet |-> aevo_wallet, dydx_wallet |-> dydx_wallet,
                 channel |-> ch, trade |-> <<>>, pc |-> "running"]
    IN  IF ~Complete(prices_a) \/ ~Complete(prices_d) THEN same
        ELSE
        LET a0 == prices_a[1][1]
            a1 == prices_a[2][1]
            d0 == prices_d[1][1]
            d1 == prices_d[2][1]
            curr_base_price == a0.price
            w0 == pass_wallet(aevo_wallet, curr_base_price)
            w1 == pass_wallet(dydx_wallet, curr_base_price)
            ready == [same EXCEPT !.wallets_initialized = TRUE,
                                  !.aevo_wallet = w0, !.dydx_wallet = w1]
            spread1 == calculate_spread(a1.price, d0.price)
            spread2 == calculate_spread(d1.price, a0.price)
            \* buy on Aevo, sell on DyDx
            amount1 == main_amount(a1, d1, w0, w1, curr_base_price)
            b1 == Send(ch, 0, handle_persistent_buy(0, books[0], amount1, a1.price))
            s1 == Send(b1.channel, 1,
                       handle_persistent_sell(1, books[1], amount1, d0.price))
            \* buy on DyDx, sell on Aevo
            amount2 == main_amount(a0, d0, w1, w0, curr_base_price)
            s2 == Send(ch, 0, handle_persistent_sell(0, books[0], amount2, a0.price))
            b2 == Send(s2.channel, 1,
                       handle_persistent_buy(1, books[1], amount2, d1.price))
        IN  IF DLt(spread2, spread1) /\ DLt(Dec(0), spread1)
            THEN IF \/ DIsZero(amount1)
                    \/ ~is_profitable(amount1, d0.price, a1.price, fee(1), fee(0))
                 THEN ready
                 ELSE IF b1.blocked THEN [ready EXCEPT !.pc = "blocked"]
                 ELSE IF s1.blocked
                 THEN [ready EXCEPT
                         !.aevo_wallet = buy(fee(0), amount1, a1.price, w0),
                         !.channel = b1.channel, !.pc = "blocked"]
                 ELSE [ready EXCEPT
                         !.aevo_wallet = buy(fee(0), amount1, a1.price, w0),
                         !.dydx_wallet = sell(fee(1), amount1, d0.price, w1),
                         !.channel = s1.channel,
                         !.trade = <<[buy |-> 0, sell |-> 1, amount |-> amount1,
                                      buy_price |-> a1.price,
                                      sell_price |-> d0.price]>>]
            ELSE IF DLt(Dec(0), spread2)
            THEN IF \/ DIsZero(amount2)
                    \/ ~is_profitable(amount2, a0.price, d1.price, fee(0), fee(1))
                 THEN ready
                 ELSE IF s2.blocked THEN [ready EXCEPT !.pc = "blocked"]
                 ELSE IF b2.blocked
                 THEN [ready EXCEPT
                         !.aevo_wallet = sell(fee(0), amount2, a0.price, w0),
                         !.channel = s2.channel, !.pc = "blocked"]
                 ELSE [ready EXCEPT
                         !.aevo_wallet = sell(fee(0), amount2, a0.price, w0),
                         !.dydx_wallet = buy(fee(1), amount2, d1.price, w1),
                         !.channel = b2.channel,
                         !.trade = <<[buy |-> 1, sell |-> 0, amount |-> amount2,
                                      buy_price |-> d1.price,
                                      sell_price |-> a0.price]>>]
            ELSE ready

-----------------------------------------------------------------------------
(* The inputs: what the venues send and how the bot is configured *)

Level(p, a) == BookEntry(Dec(p), Dec(a))

\* The levels of a venue's single-level updates; amount 0 removes a level
BidLevels == {Level(3, 0), Level(4, 1)}
AskLevels == {Level(2, 0), Level(1, 1)}

\* The <<bids, asks>> of a venue's snapshots: two-sided (ask 4 / bid 3 and
\* ask 2 / bid 1), one whose bid is above its ask, one-sided, and one whose
\* sides are not in price order
SnapshotSides ==
    { <<<<Level(3, 4)>>, <<Level(4, 4)>>>>,
      <<<<Level(1, 2)>>, <<Level(2, 2)>>>>,
      <<<<Level(2, 4)>>, <<Level(1, 4)>>>>,
      <<<<Level(2, 1)>>, <<>>>>,
      <<<<Level(1, 1), Level(3, 2)>>, <<Level(4, 2), Level(2, 1)>>>> }

\* The raw messages handle_wss can decode from venue v's feed
RawMessages(v) ==
    IF v = 0
    THEN {AevoRaw("snapshot", s[1], s[2]) : s \in SnapshotSides}
         \cup {AevoRaw("update", <<e>>, <<>>) : e \in BidLevels}
         \cup {AevoRaw("update", <<>>, <<e>>) : e \in AskLevels}
         \cup {AevoRaw("update", <<>>, <<>>), AevoRaw("subscribed", <<>>, <<>>)}
    ELSE {DyDxRaw({"asks", "bids"}, s[1], s[2]) : s \in SnapshotSides}
         \cup {DyDxRaw({"bids"}, <<e>>, <<>>) : e \in BidLevels}
         \cup {DyDxRaw({"asks"}, <<>>, <<e>>) : e \in AskLevels}
         \cup {DyDxRaw({}, <<>>, <<>>), DyDxRaw({"bids"}, <<>>, <<>>)}

\* Config: PERSISTENT_TRADES, AEVO_FEE, DYDX_FEE, STARTING_VALUE
Configs ==
    [persistent_trades : BOOLEAN,
     aevo_fee : {Frac(1, 10)},
     dydx_fee : {Frac(1, 20)},
     starting_value : {Dec(12)}]

-----------------------------------------------------------------------------
(* The program: the state after construction and its steps *)

NoQuote == <<<<>>, <<>>>>

\* The handle_wss task as order_book_subscribe spawns it: about to connect.
\* state is where the task stands ("connecting", "subscribing", "streaming",
\* or "panicked" once an expect has failed), frame what became of the last
\* frame of the connection, discarded how many of its frames were dropped.
FeedNew == [state |-> "connecting", frame |-> "none", discarded |-> 0]

Init ==
    /\ config \in Configs
    /\ order_book = [v \in Venues |-> OrderBookNew]
    /\ channel = [v \in Venues |-> <<>>]
    /\ update = [v \in Venues |-> <<>>]
    /\ best_prices = [v \in Venues |-> NoQuote]
    /\ aevo_prices = NoQuote
    /\ dydx_prices = NoQuote
    /\ wallets_initialized = FALSE
    /\ aevo_wallet = WalletNew(config.starting_value)
    /\ dydx_wallet = WalletNew(config.starting_value)
    /\ trade = <<>>
    /\ pc = "running"
    /\ nmsgs = 0
    /\ ntrades = 0
    /\ feed = [v \in Venues |-> FeedNew]

\* handle_wss of venue v, with its connection up and subscribed, decodes a
\* frame and sends it into the channel; the send waits while the channel is
\* full
HandleWss(v) ==
    /\ pc # "panicked"
    /\ feed[v].state # "panicked"
    /\ feed' = [feed EXCEPT ![v] = [@ EXCEPT !.state = "streaming",
                                             !.frame = "decoded"]]
    /\ nmsgs < MaxMsgs
    /\ Len(channel[v]) < QueueCap
    /\ \E msg \in RawMessages(v) :
          channel' = [channel EXCEPT ![v] = Append(@, msg)]
    /\ nmsgs' = nmsgs + 1
    /\ UNCHANGED <<order_book, update, best_prices, aevo_prices, dydx_prices,
                   wallets_initialized, aevo_wallet, dydx_wallet, trade, pc,
                   config, ntrades>>

Trades(t) == IF t = <<>> THEN ntrades ELSE ntrades + 1

\* run_bot: exchanges.next() yields the item of venue key, and the loop body
\* runs on it
RunBot(key) ==
    /\ pc = "running"
    /\ ntrades < MaxTrades
    /\ channel[key] # <<>>
    /\ LET polled == poll_next(key, order_book[key], Head(channel[key]))
           books == [order_book EXCEPT ![key] = polled.book]
           ch == [channel EXCEPT ![key] = Tail(@)]
           next == run_bot_body(key, polled.item, books, ch)
       IN  IF polled.panic
           THEN /\ pc' = "panicked"
                /\ channel' = ch
                /\ UNCHANGED <<order_book, update, best_prices,
                               wallets_initialized, aevo_wallet, dydx_wallet,
                               trade, ntrades>>
           ELSE /\ order_book' = books
                /\ update' = [update EXCEPT ![key] = polled.update]
                /\ best_prices' = next.best_prices
                /\ wallets_initialized' = next.wallets_initialized
                /\ aevo_wallet' = next.aevo_wallet
                /\ dydx_wallet' = next.dydx_wallet
                /\ channel' = next.channel
                /\ trade' = next.trade
                /\ pc' = next.pc
                /\ ntrades' = Trades(next.trade)
    /\ UNCHANGED <<aevo_prices, dydx_prices, config, nmsgs, feed>>

\* main: the select! takes the item of venue key (dydx.next() is stored in
\* aevo_prices, aevo.next() in dydx_prices), and the loop body runs
Main(key) ==
    /\ pc = "running"
    /\ ntrades < MaxTrades
    /\ channel[key] # <<>>
    /\ LET polled == poll_next(key, order_book[key], Head(channel[key]))
           books == [order_book EXCEPT ![key] = polled.book]
           ch == [channel EXCEPT ![key] = Tail(@)]
           prices_a == IF key = 1 THEN polled.item ELSE aevo_prices
           prices_d == IF key = 0 THEN polled.item ELSE dydx_prices
           next == main_body(prices_a, prices_d, books, ch)
       IN  IF polled.panic
           THEN /\ pc' = "panicked"
                /\ channel' = ch
                /\ UNCHANGED <<order_book, update, aevo_prices, dydx_prices,
                               wallets_initialized, aevo_wallet, dydx_wallet,
                               trade, ntrades>>
           ELSE /\ order_book' = books
                /\ update' = [update EXCEPT ![key] = polled.update]
                /\ aevo_prices' = prices_a
                /\ dydx_prices' = prices_d
                /\ wallets_initialized' = next.wallets_initialized
                /\ aevo_wallet' = next.aevo_wallet
                /\ dydx_wallet' = next.dydx_wallet
                /\ channel' = next.channel
                /\ trade' = next.trade
                /\ pc' = next.pc
                /\ ntrades' = Trades(next.trade)
    /\ UNCHANGED <<best_prices, config, nmsgs, feed>>

\* The bot as bot.rs runs it
Next ==
    \/ \E v \in Venues : HandleWss(v)
    \/ \E key \in Venues : RunBot(key)

Spec == Init /\ [][Next]_vars

\* The bot as main.rs runs it
NextMain ==
    \/ \E v \in Venues : HandleWss(v)
    \/ \E key \in Venues : Main(key)

SpecMain == Init /\ [][NextMain]_vars

-----------------------------------------------------------------------------
(* The feed task of a venue (handle_wss) step by step, and the adapter's    *)
(* stream polled on its own                                                 *)

\* connect_async(WSS_URL).await.expect("Failed to connect")
Connect(v) ==
    /\ pc # "panicked"
    /\ feed[v].state = "connecting"
    /\ \E ok \in BOOLEAN :
          feed' = [feed EXCEPT ![v] =
                      [FeedNew EXCEPT !.state = IF ok THEN "subscribing"
                                                ELSE "panicked"]]
    /\ UNCHANGED <<order_book, channel, update, best_prices, aevo_prices,
                   dydx_prices, wallets_initialized, aevo_wallet, dydx_wallet,
                   trade, pc, config, nmsgs, ntrades>>

\* wss_stream.send(subscription).await.expect("Failed to send ...")
Subscribe(v) ==
    /\ pc # "panicked"
    /\ feed[v].state = "subscribing"
    /\ \E ok \in BOOLEAN :
          feed' = [feed EXCEPT ![v].state = IF ok THEN "streaming" ELSE "panicked"]
    /\ UNCHANGED <<order_book, channel, update, best_prices, aevo_prices,
                   dydx_prices, wallets_initialized, aevo_wallet, dydx_wallet,
                   trade, pc, config, nmsgs, ntrades>>

\* The task after serde_json::from_str has failed on a frame
on_decode_error_reconnect(state) == "connecting"

\* Err(_) => tracing::debug!(..): the closure returns and for_each goes on
on_decode_error(state) == state

\* One item of wss_stream in for_each: a text frame that decodes to msg is
\* sent into the channel (the send waits while the channel is full); a text
\* frame that does not decode and a frame that is not text are dropped; an
\* Err item is dropped and ends the stream, as does the close of the socket,
\* and the loop goes back to connect_async
Frame(v) ==
    /\ pc # "panicked"
    /\ feed[v].state = "streaming"
    /\ nmsgs < MaxMsgs
    /\ \/ /\ Len(channel[v]) < QueueCap
          /\ \E msg \in RawMessages(v) :
                channel' = [channel EXCEPT ![v] = Append(@, msg)]
          /\ feed' = [feed EXCEPT ![v].frame = "decoded"]
       \/ /\ feed' = [feed EXCEPT ![v] =
                         [state |-> on_decode_error(@.state),
                          frame |-> "undecodable",
                          discarded |-> @.discarded + 1]]
          /\ channel' = channel
       \/ /\ feed' = [feed EXCEPT ![v] =
                         [@ EXCEPT !.frame = "binary",
                                   !.discarded = @ + 1]]
          /\ channel' = channel
       \/ /\ \E end \in {"error", "closed"} :
                feed' = [feed EXCEPT ![v] =
                            [@ EXCEPT !.state = "connecting", !.frame = end]]
          /\ channel' = channel
    /\ nmsgs' = nmsgs + 1
    /\ UNCHANGED <<order_book, update, best_prices, aevo_prices, dydx_prices,
                   wallets_initialized, aevo_wallet, dydx_wallet, trade, pc,
                   config, ntrades>>

\* Stream::poll_next of venue v's adapter, Poll::Ready(Some(msg))
Poll(v) ==
    /\ pc = "running"
    /\ channel[v] # <<>>
    /\ channel' = [channel EXCEPT ![v] = Tail(@)]
    /\ LET polled == poll_next(v, order_book[v], Head(channel[v]))
       IN  IF polled.panic
           THEN /\ pc' = "panicked"
                /\ UNCHANGED <<order_book, update>>
           ELSE /\ pc' = pc
                /\ order_book' = [order_book EXCEPT ![v] = polled.book]
                /\ update' = [update EXCEPT ![v] = polled.update]
    /\ UNCHANGED <<best_prices, aevo_prices, dydx_prices, wallets_initialized,
                   aevo_wallet, dydx_wallet, trade, config, nmsgs, ntrades,
                   feed>>

NextFeed ==
    \/ \E v \in Venues : Connect(v)
    \/ \E v \in Venues : Subscribe(v)
    \/ \E v \in Venues : Frame(v)
    \/ \E v \in Venues : Poll(v)

SpecFeed == Init /\ [][NextFeed]_vars

-----------------------------------------------------------------------------
(* OrderBook::update as a function: any message on any book it has built *)

BookLevels == {Level(p, a) : p \in {1, 2, 3}, a \in {0, 1, 2}}

\* The sides of a Snapshot: empty, one level, two levels in falling and in
\* rising price order, two levels at one price, one level of amount 0
BookSides ==
    { <<>>, <<Level(2, 1)>>,
      <<Level(3, 1), Level(1, 2)>>,
      <<Level(1, 1), Level(3, 2)>>,
      <<Level(2, 1), Level(2, 2)>>,
      <<Level(1, 0)>> }

BookMessages ==
    {Snapshot(b, a) : b \in BookSides, a \in BookSides}
    \cup {BidUpdate(e) : e \in BookLevels}
    \cup {AskUpdate(e) : e \in BookLevels}

\* self.order_book.update(update) on Aevo's book
BookUpdate(msg) ==
    /\ order_book' = [order_book EXCEPT ![0] = OrderBookUpdate(@, msg)]
    /\ update' = [update EXCEPT ![0] = <<msg>>]
    /\ UNCHANGED <<channel, best_prices, aevo_prices, dydx_prices,
                   wallets_initialized, aevo_wallet, dydx_wallet, trade, pc,
                   config, nmsgs, ntrades, feed>>

NextBook == \E msg \in BookMessages : BookUpdate(msg)

SpecBook == Init /\ [][NextBook]_vars

-----------------------------------------------------------------------------
(* run_bot's pass as a function of the quotes it holds: every venue has     *)
(* reported a best bid and a best ask, and the next item is any such pair   *)

EngineLevels == {Level(p, a) : p \in {2, 3}, a \in {1, 10}}

EngineItems == {<<<<b>>, <<a>>>> : b \in EngineLevels, a \in EngineLevels}

EngineConfigs ==
    [persistent_trades : {FALSE},
     aevo_fee : {Dec(0), Frac(1, 10)},
     dydx_fee : {Frac(1, 4), Frac(1, 2)},
     starting_value : {Dec(12)}]

InitEngine ==
    /\ config \in EngineConfigs
    /\ order_book = [v \in Venues |-> OrderBookNew]
    /\ channel = [v \in Venues |-> <<>>]
    /\ update = [v \in Venues |-> <<>>]
    /\ best_prices \in [Venues -> EngineItems]
    /\ aevo_prices = NoQuote
    /\ dydx_prices = NoQuote
    /\ wallets_initialized = FALSE
    /\ aevo_wallet = WalletNew(config.starting_value)
    /\ dydx_wallet = WalletNew(config.starting_value)
    /\ trade = <<>>
    /\ pc = "running"
    /\ nmsgs = 0
    /\ ntrades = 0
    /\ feed = [v \in Venues |-> FeedNew]

\* The body of run_bot's loop on the item (key, item)
EnginePass(key, item) ==
    /\ pc = "running"
    /\ ntrades < MaxTrades
    /\ \E next \in {run_bot_body(key, item, order_book, channel)} :
          /\ best_prices' = next.best_prices
          /\ wallets_initialized' = next.wallets_initialized
          /\ aevo_wallet' = next.aevo_wallet
          /\ dydx_wallet' = next.dydx_wallet
          /\ channel' = next.channel
          /\ trade' = next.trade
          /\ pc' = next.pc
          /\ ntrades' = Trades(next.trade)
    /\ UNCHANGED <<order_book, update, aevo_prices, dydx_prices, config, nmsgs,
                   feed>>

NextEngine == \E key \in Venues : \E item \in EngineItems : EnginePass(key, item)

SpecEngine == InitEngine /\ [][NextEngine]_vars

-----------------------------------------------------------------------------
(* Properties *)

Price(option) == option[1].price
Amount(option) == option[1].amount

\* The (best bid, best ask) of venue v's book
VenueQuote(books, v) == <<best_bid(books[v]), best_ask(books[v])>>

\* C1: every item an adapter emits is (best bid, best ask) of its own book
\* after the update, and the loop records it as the quote of that venue: when
\* run_bot records a quote for venue v, it is v's best bid and v's best ask,
\* in that order.
C1_QuoteIsBidAsk ==
    [][\A v \in Venues :
          best_prices'[v] # best_prices[v]
              => best_prices'[v] = VenueQuote(order_book', v)]_vars

\* C3: until each venue has produced an update with both a best bid and a
\* best ask, the pass is skipped: no wallet is rebalanced and nothing is
\* traded.
C3_NoPassBeforeBothComplete ==
    (\E v \in Venues : best_prices[v] = NoQuote)
        => /\ ~wallets_initialized
           /\ aevo_wallet = WalletNew(config.starting_value)
           /\ dydx_wallet = WalletNew(config.starting_value)
           /\ trade = <<>>

StrictlyDescending(side) ==
    \A i \in 1..Len(side) : \A j \in 1..Len(side) :
        i < j => DLt(side[j].price, side[i].price)

StrictlyAscending(side) ==
    \A i \in 1..Len(side) : \A j \in 1..Len(side) :
        i < j => DLt(side[i].price, side[j].price)

\* C4: after any sequence of Snapshot, BidUpdate and AskUpdate messages on an
\* empty book, bids are strictly descending and asks strictly ascending by
\* price (so no price occurs twice on a side).
C4_BookSorted ==
    /\ StrictlyDescending(order_book[0].bids)
    /\ StrictlyAscending(order_book[0].asks)

\* C5: best_bid() is none exactly when bids is empty and otherwise the entry
\* of bids with the highest price; best_ask() is none exactly when asks is
\* empty and otherwise the entry of asks with the lowest price.
C5_BestIsExtremal ==
    LET book == order_book[0]
    IN  /\ (best_bid(book) = <<>>) <=> (book.bids = <<>>)
        /\ (best_ask(book) = <<>>) <=> (book.asks = <<>>)
        /\ book.bids # <<>> =>
              /\ \E i \in 1..Len(book.bids) : book.bids[i] = best_bid(book)[1]
              /\ \A i \in 1..Len(book.bids) :
                    DLe(book.bids[i].price, Price(best_bid(book)))
        /\ book.asks # <<>> =>
              /\ \E i \in 1..Len(book.asks) : book.asks[i] = best_ask(book)[1]
              /\ \A i \in 1..Len(book.asks) :
                    DLe(Price(best_ask(book)), book.asks[i].price)

Without(side, k) == [i \in 1..(Len(side) - 1) |-> IF i < k THEN side[i] ELSE side[i + 1]]

Descending(side) ==
    \A i \in 1..Len(side) : \A j \in 1..Len(side) :
        i < j => DLe(side[j].price, side[i].price)

Ascending(side) ==
    \A i \in 1..Len(side) : \A j \in 1..Len(side) :
        i < j => DLe(side[i].price, side[j].price)

Count(side, e) == Cardinality({i \in 1..Len(side) : side[i] = e})

\* What a single-level update with entry e makes of a side: old is the side
\* before, new the side after, bids tells which side it is.
LevelEffect(old, new, e, bids) ==
    LET at == {i \in 1..Len(old) : old[i].price = e.price}
        first == CHOOSE i \in at : \A j \in at : i <= j
    IN  IF at = {}
        THEN IF DIsZero(e.amount)
             THEN new = old
             ELSE /\ Len(new) = Len(old) + 1
                  /\ Count(new, e) = Count(old, e) + 1
                  /\ \A x \in {old[i] : i \in 1..Len(old)} :
                        Count(new, x) = Count(old, x)
                  /\ IF bids
                     THEN /\ Descending(old) => Descending(new)
                          /\ StrictlyDescending(old) => StrictlyDescending(new)
                     ELSE /\ Ascending(old) => Ascending(new)
                          /\ StrictlyAscending(old) => StrictlyAscending(new)
                  /\ (IF bids THEN Descending(old) ELSE Ascending(old))
                        => \E k \in 1..Len(new) : new[k] = e /\ Without(new, k) = old
        ELSE IF DIsZero(e.amount)
             THEN new = Without(old, first)
             ELSE /\ Len(new) = Len(old)
                  /\ new[first] = [price |-> old[first].price, amount |-> e.amount]
                  /\ \A i \in 1..Len(old) : i # first => new[i] = old[i]

\* C6: a BidUpdate or AskUpdate changes only its own side; there, amount 0
\* removes the entry at that price (and changes nothing when there is none),
\* a non-zero amount at an existing price replaces that entry's amount only,
\* and a non-zero amount at a new price adds one entry and keeps the order.
C6_LevelUpdate ==
    [][update'[0] # <<>> =>
          LET msg == update'[0][1]
          IN  /\ msg.kind = "BidUpdate" =>
                    /\ order_book'[0].asks = order_book[0].asks
                    /\ LevelEffect(order_book[0].bids, order_book'[0].bids,
                                   msg.bids[1], TRUE)
              /\ msg.kind = "AskUpdate" =>
                    /\ order_book'[0].bids = order_book[0].bids
                    /\ LevelEffect(order_book[0].asks, order_book'[0].asks,
                                   msg.asks[1], FALSE)]_vars

\* A new bid has gone in between two resting bids, and asks are resting too
C6_Witness ==
    /\ update[0] # <<>>
    /\ update[0][1].kind = "BidUpdate"
    /\ Len(order_book[0].bids) = 3
    /\ order_book[0].bids[2] = update[0][1].bids[1]
    /\ StrictlyDescending(order_book[0].bids)
    /\ order_book[0].asks # <<>>

\* C2: the buy venue is the venue with the lowest best ask, the sell venue the
\* venue with the highest best bid, and the trade is made at those two prices
\* (with ask 4 / bid 3 on one venue and ask 2 / bid 1 on the other: buy at 2
\* on the second, sell at 3 on the first).
C2_BuyLowestAskSellHighestBid ==
    trade # <<>> =>
        LET t == trade[1]
        IN  /\ \A v \in Venues : Complete(VenueQuote(order_book, v))
            /\ t.buy_price = Price(best_ask(order_book[t.buy]))
            /\ t.sell_price = Price(best_bid(order_book[t.sell]))
            /\ \A v \in Venues :
                  /\ DLe(t.buy_price, Price(best_ask(order_book[v])))
                  /\ DLe(Price(best_bid(order_book[v])), t.sell_price)

AskTie(prices) == Price(prices[0][2]) = Price(prices[1][2])
BidTie(prices) == Price(prices[0][1]) = Price(prices[1][1])

NetProfit(t) ==
    DMul(t.amount,
         DSub(DMul(t.sell_price, DSub(Dec(1), fee(t.sell))),
              DMul(t.buy_price, DAdd(Dec(1), fee(t.buy)))))

\* Fee pairs (sell_fee, buy_fee) that add up to 1% or more
OnePercentFees ==
    { <<Frac(1, 100), Dec(0)>>, <<Dec(0), Frac(1, 100)>>,
      <<Frac(1, 200), Frac(1, 200)>>, <<Frac(1, 100), Frac(1, 50)>> }

\* C8: a pass changes the wallets (beyond the rebalance of the first pass) only
\* when the traded amount is non-zero and amount*sell_price - amount*buy_price
\* - amount*sell_price*sell_fee - amount*buy_price*buy_fee > 0; and buying 1 at
\* 100 to sell at 101 is not profitable when the two fees add up to 1% or more.
C8_TradeOnlyIfProfitable ==
    [][/\ (\/ aevo_wallet' # pass_wallet(aevo_wallet, Price(best_prices'[0][1]))
           \/ dydx_wallet' # pass_wallet(dydx_wallet, Price(best_prices'[0][1]))
           \/ ntrades' # ntrades)
          => /\ trade' # <<>>
             /\ ~DIsZero(trade'[1].amount)
             /\ DLt(Dec(0), NetProfit(trade'[1]))
       /\ \A f \in OnePercentFees :
             ~is_profitable(Dec(1), Dec(101), Dec(100), f[1], f[2])]_vars

\* The quotes cross between the two venues, the wallets can fund a trade, the
\* fees are at least the raw spread, and the pass has left the wallets alone
C8_Witness ==
    /\ wallets_initialized
    /\ ntrades = 0
    /\ trade = <<>>
    /\ min_by_ask(best_prices) = 1
    /\ max_by_bid(best_prices) = 0
    /\ DLt(Price(best_prices[1][2]), Price(best_prices[0][1]))
    /\ ~DIsZero(strategy_amount(best_prices[1][2][1], best_prices[0][1][1],
                                dydx_wallet, aevo_wallet))
    /\ ~is_profitable(strategy_amount(best_prices[1][2][1], best_prices[0][1][1],
                                      dydx_wallet, aevo_wallet),
                      Price(best_prices[0][1]), Price(best_prices[1][2]),
                      fee(0), fee(1))
    /\ aevo_wallet = rebalance(WalletNew(config.starting_value),
                               Price(best_prices[0][1]))

\* Venue v alone has the lowest best ask and alone has the highest best bid
OneVenueBoth(prices) ==
    \E v \in Venues :
        /\ DLt(Price(prices[v][2]), Price(prices[Other(v)][2]))
        /\ DLt(Price(prices[Other(v)][1]), Price(prices[v][1]))

\* C9: in a pass in which one venue has both the lowest best ask and the
\* highest best bid, neither wallet is changed (beyond the rebalance of the
\* first pass).
C9_SameVenueNoTrade ==
    [][OneVenueBoth(best_prices')
          => /\ aevo_wallet' = pass_wallet(aevo_wallet, Price(best_prices'[0][1]))
             /\ dydx_wallet' = pass_wallet(dydx_wallet, Price(best_prices'[0][1]))
             /\ trade' = <<>>]_vars

\* One venue has both, and its own bid is above its own ask; no trade was made
C9_Witness ==
    /\ OneVenueBoth(best_prices)
    /\ \E v \in Venues : DLt(Price(best_prices[v][2]), Price(best_prices[v][1]))
    /\ wallets_initialized
    /\ ntrades > 0
    /\ trade = <<>>

\* The wallet of venue v as the pass in progress trades on it
TradingWallet(v) ==
    LET price == Price(aevo_prices'[1])
    IN  IF v = 0 THEN pass_wallet(aevo_wallet, price)
        ELSE pass_wallet(dydx_wallet, price)

\* C10: for every executed trade the amount is at most the buy venue's
\* best-ask size, the sell venue's best-bid size and the sell venue's base
\* balance, and amount times the buy price is at most the buy venue's quote
\* balance.
C10_AmountWithinLimits ==
    [][ntrades' = ntrades + 1 =>
          LET t == trade'[1]
          IN  /\ DLe(t.amount, Amount(best_ask(order_book'[t.buy])))
              /\ DLe(t.amount, Amount(best_bid(order_book'[t.sell])))
              /\ DLe(t.amount, TradingWallet(t.sell).base)
              /\ DLe(DMul(t.amount, t.buy_price), TradingWallet(t.buy).quote)]_vars

\* The wallet of venue v
WalletOf(v) == IF v = 0 THEN aevo_wallet ELSE dydx_wallet

\* The wallet of venue v after the step
NewWalletOf(v) == IF v = 0 THEN aevo_wallet' ELSE dydx_wallet'

\* The wallet of venue v as the pass of run_bot in progress trades from it
EngineWallet(v) == pass_wallet(WalletOf(v), Price(best_prices'[0][1]))

\* C11: each wallet is rebalanced exactly once: on the first pass at which
\* both venues have reported a best bid and a best ask, and before any buy
\* or sell, {base 0, quote S} becomes {base (S/2)/price, quote S/2}
\* ({base 0, quote 1000} at price 10 becomes {base 50, quote 500}); no later
\* pass rebalances a wallet again.
C11_RebalancedOnce ==
    [][/\ (wallets_initialized' /\ ~wallets_initialized)
             => /\ \A v \in Venues : Complete(best_prices'[v])
                /\ ntrades = 0
                /\ trade' = <<>> =>
                      \A v \in Venues :
                          NewWalletOf(v) =
                              [base |-> DDiv(DDiv(config.starting_value, Dec(2)),
                                             Price(best_prices'[0][1])),
                               quote |-> DDiv(config.starting_value, Dec(2))]
       /\ wallets_initialized
             => /\ wallets_initialized'
                /\ trade' = <<>> =>
                      aevo_wallet' = aevo_wallet /\ dydx_wallet' = dydx_wallet
       /\ rebalance(WalletNew(Dec(1000)), Dec(10))
             = [base |-> Dec(50), quote |-> Dec(500)]]_vars

\* C12: buy(amount, price) yields base + amount and quote - amount*price -
\* amount*price*fee_rate, the quote being zero when that value would be
\* negative; from {base 0, quote 100} with amount 10, price 5 and fee_rate
\* 0.01 the result is base 10, quote 49.5.
C12_Buy ==
    [][/\ ntrades' = ntrades + 1 =>
             LET t == trade'[1]
                 w == EngineWallet(t.buy)
                 cost == DMul(t.amount, t.buy_price)
                 left == DSub(DSub(w.quote, cost), DMul(cost, fee(t.buy)))
             IN  /\ NewWalletOf(t.buy).base = DAdd(w.base, t.amount)
                 /\ NewWalletOf(t.buy).quote
                       = IF DLt(left, Dec(0)) THEN Dec(0) ELSE left
       /\ buy(Frac(1, 100), Dec(10), Dec(5), [base |-> Dec(0), quote |-> Dec(100)])
             = [base |-> Dec(10), quote |-> Frac(99, 2)]]_vars

\* A buy with a fee has taken the quote balance of its wallet to zero
C12_Witness ==
    /\ trade # <<>>
    /\ ~DIsZero(fee(trade[1].buy))
    /\ WalletOf(trade[1].buy).quote = Dec(0)
    /\ DLt(Dec(0), WalletOf(trade[1].buy).base)

\* C13: sell(amount, price) yields base - amount and quote + amount*price -
\* amount*price*fee_rate, fee_rate being the fee of the venue sold on.
C13_Sell ==
    [][ntrades' = ntrades + 1 =>
          LET t == trade'[1]
              w == EngineWallet(t.sell)
              value == DMul(t.amount, t.sell_price)
          IN  /\ NewWalletOf(t.sell).base = DSub(w.base, t.amount)
              /\ NewWalletOf(t.sell).quote
                    = DSub(DAdd(w.quote, value), DMul(value, fee(t.sell)))]_vars

\* A sell on a venue whose fee is not zero and differs from the buy venue's
C13_Witness ==
    /\ trade # <<>>
    /\ ~DIsZero(fee(trade[1].sell))
    /\ fee(trade[1].sell) # fee(trade[1].buy)
    /\ DLt(Dec(0), WalletOf(trade[1].sell).quote)
    /\ ntrades = 1

\* C14: every executed trade buys X into the buy venue's wallet and sells the
\* same X out of the other venue's wallet, so base1 + base2 is after any
\* number of trades what it was right after the rebalance.
C14_BaseConserved ==
    [][/\ DAdd(aevo_wallet'.base, dydx_wallet'.base)
             = DAdd(EngineWallet(0).base, EngineWallet(1).base)
       /\ ntrades' = ntrades + 1 =>
             LET t == trade'[1]
             IN  /\ t.sell = Other(t.buy)
                 /\ ~DIsZero(t.amount)
                 /\ NewWalletOf(t.buy).base = DAdd(EngineWallet(t.buy).base, t.amount)
                 /\ NewWalletOf(t.sell).base
                       = DSub(EngineWallet(t.sell).base, t.amount)]_vars

\* Two trades have been made and the two base balances differ
C14_Witness ==
    /\ ntrades = 2
    /\ trade # <<>>
    /\ aevo_wallet.base # dydx_wallet.base

\* The fees of the trade t: X*buy_price*buy_fee + X*sell_price*sell_fee
TradeFees(t) ==
    DAdd(DMul(DMul(t.amount, t.buy_price), fee(t.buy)),
         DMul(DMul(t.amount, t.sell_price), fee(t.sell)))

QuoteTotal(w1, w2) == DAdd(w1.quote, w2.quote)

C16_BalancesNonNegative ==
    \A v \in Venues :
        /\ DLe(Dec(0), WalletOf(v).base)
        /\ DLe(Dec(0), WalletOf(v).quote)

\* After two trades a wallet has sold all its base and a wallet has no quote
C16_Witness ==
    /\ ntrades = 2
    /\ \E v \in Venues : DIsZero(WalletOf(v).base)
    /\ \E v \in Venues : DIsZero(WalletOf(v).quote)

\* C17: after any transport-level failure on a venue's feed (connection
\* refused, socket closed, frame error) the feed task connects again and
\* re-sends the subscribe handshake, after every such failure; no transport
\* failure terminates the feed task.  Stated on finite runs: a feed task is
\* always in its loop, connecting, subscribing or streaming.
C17_FeedTaskNeverEnds ==
    \A v \in Venues : feed[v].state \in {"connecting", "subscribing", "streaming"}

\* C18: when a frame fails schema decoding only that message is discarded:
\* nothing is put on the queue, the order book is unchanged and the
\* connection stays open, and the frames after it are still taken.
C18_DecodeFailureDiscardsOne ==
    [][/\ \A v \in Venues :
          (feed'[v].frame = "undecodable"
              /\ feed'[v].discarded = feed[v].discarded + 1)
          => /\ channel' = channel
             /\ order_book' = order_book
             /\ update' = update
             /\ pc' = pc
             /\ feed[v].state = "streaming"
             /\ feed'[v].state = "streaming"
             /\ feed'[Other(v)] = feed[Other(v)]
       /\ \A v \in Venues :
             (feed[v].state = "streaming" /\ feed[v].discarded > 0
                 /\ pc # "panicked" /\ nmsgs < MaxMsgs)
             => ENABLED Frame(v)]_vars

\* After a frame of the connection failed to decode, a later frame of the
\* same connection was decoded, queued and applied to the book
C18_Witness ==
    /\ feed[0].state = "streaming"
    /\ feed[0].discarded > 0
    /\ feed[0].frame = "decoded"
    /\ channel[0] = <<>>
    /\ update[0] # <<>>
    /\ order_book[0].bids # <<>>
    /\ nmsgs = 2

\* The book the claimed translation of msg makes of book: both arrays give
\* a Snapshot, asks alone an AskUpdate, bids alone a BidUpdate, neither
\* leaves the book as it is
ClaimedBook(book, msg) ==
    CASE msg.bids # <<>> /\ msg.asks # <<>> ->
            OrderBookUpdate(book, Snapshot(msg.bids, msg.asks))
      [] msg.bids = <<>> /\ msg.asks # <<>> ->
            OrderBookUpdate(book, AskUpdate(msg.asks[1]))
      [] msg.bids # <<>> /\ msg.asks = <<>> ->
            OrderBookUpdate(book, BidUpdate(msg.bids[1]))
      [] OTHER -> book

\* C19: every decoded message is translated to exactly one action on the
\* order book: both arrays a Snapshot, only asks an AskUpdate, only bids a
\* BidUpdate, and a message whose arrays are both empty is ignored, leaving
\* the book unchanged and the adapter running.
C19_OneActionPerMessage ==
    [][\A v \in Venues :
          Len(channel'[v]) < Len(channel[v])
          => /\ order_book'[v] = ClaimedBook(order_book[v], Head(channel[v]))
             /\ pc' = "running"]_vars

\* The OrderBookMessage the adapter of venue v builds from msg, <<>> for none
Translated(v, msg) ==
    IF v = 0 THEN AevoTranslate(msg) ELSE DyDxTranslate(msg).update

\* C20: every message the reading task decodes is applied to the venue's
\* order book exactly once and in arrival order; the producer waits while
\* the bounded queue is full; no message is dropped, duplicated or
\* reordered.  Step by step: the queue never exceeds its capacity, a step
\* either leaves a venue's queue and book alone, or appends one message at
\* the back of the queue, or takes the message at the front and applies it
\* (a message with nothing in it changes nothing), leaving the consumer
\* running for the messages behind it.
C20_AppliedOnceInOrder ==
    [][\A v \in Venues :
          /\ Len(channel'[v]) <= QueueCap
          /\ \/ channel'[v] = channel[v] /\ order_book'[v] = order_book[v]
             \/ /\ Len(channel'[v]) = Len(channel[v]) + 1
                /\ SubSeq(channel'[v], 1, Len(channel[v])) = channel[v]
                /\ order_book'[v] = order_book[v]
             \/ /\ channel[v] # <<>>
                /\ channel'[v] = Tail(channel[v])
                /\ pc' = "running"
                /\ LET upd == Translated(v, Head(channel[v]))
                   IN  IF upd = <<>> THEN order_book'[v] = order_book[v]
                       ELSE order_book'[v] = OrderBookUpdate(order_book[v], upd[1])
      ]_vars

-----------------------------------------------------------------------------
(* Persistent trades: what the hooks feed back into the books *)

\* the amount resting at a price on one side of a book, <<>> for no such level
RestingAt(side, price) ==
    LET at == {i \in 1..Len(side) : side[i].price = price}
    IN  IF at = {} THEN <<>> ELSE <<side[CHOOSE i \in at : TRUE].amount>>

\* the last message of venue v's queue is the level update of a fill of
\* amount at price against the level resting on that side
FillFedBack(v, side, raw, amount, price) ==
    /\ RestingAt(side, price) # <<>>
    /\ channel'[v] # <<>>
    /\ channel'[v][Len(channel'[v])] =
         IF v = 0
         THEN IF raw = "asks"
              THEN AskLevelRaw(0, BookEntry(price, DSub(RestingAt(side, price)[1], amount)))
              ELSE BidLevelRaw(0, BookEntry(price, DSub(RestingAt(side, price)[1], amount)))
         ELSE IF raw = "asks"
              THEN AskLevelRaw(1, BookEntry(price, DSub(RestingAt(side, price)[1], amount)))
              ELSE BidLevelRaw(1, BookEntry(price, DSub(RestingAt(side, price)[1], amount)))

\* C21: with persistent trades on, every executed trade of amount a puts
\* into the buy venue's queue an ask-level update and into the sell venue's
\* queue a bid-level update that set the level at the traded price to the
\* amount resting there minus a, as a real fill would leave it.
C21_FillFedBack ==
    [][(ntrades' = ntrades + 1 /\ config.persistent_trades) =>
         LET t == trade'[1]
         IN  /\ FillFedBack(t.buy, order_book'[t.buy].asks, "asks",
                            t.amount, t.buy_price)
             /\ FillFedBack(t.sell, order_book'[t.sell].bids, "bids",
                            t.amount, t.sell_price)]_vars

\* C22: in every book state every resting entry, on either side, has a
\* strictly positive amount; amount 0 never rests in the book.
C22_RestingAmountsPositive ==
    \A v \in Venues :
        /\ \A i \in 1..Len(order_book[v].bids) :
               DLt(Dec(0), order_book[v].bids[i].amount)
        /\ \A i \in 1..Len(order_book[v].asks) :
               DLt(Dec(0), order_book[v].asks[i].amount)

-----------------------------------------------------------------------------
(* run_bot's loop while it holds a quote of each venue: each book has been   *)
(* built by a two-sided snapshot whose item the loop has recorded, and the   *)
(* feeds go on                                                               *)

\* The <<bids, asks>> of the snapshot that built each venue's book: Aevo bid
\* 3 / ask 4, DyDx bid 1 / ask 2
HeldSides ==
    [v \in Venues |-> IF v = 0 THEN <<<<Level(3, 4)>>, <<Level(4, 4)>>>>
                      ELSE <<<<Level(1, 2)>>, <<Level(2, 2)>>>>]

\* poll_next of venue v on the snapshot of sides s, from the empty book
HeldPoll(v, s) ==
    poll_next(v, OrderBookNew,
              IF v = 0 THEN AevoRaw("snapshot", s[1], s[2])
              ELSE DyDxRaw({"asks", "bids"}, s[1], s[2]))

InitHeld ==
    /\ config \in Configs
    /\ order_book = [v \in Venues |-> HeldPoll(v, HeldSides[v]).book]
    /\ update = [v \in Venues |-> HeldPoll(v, HeldSides[v]).update]
    /\ best_prices = [v \in Venues |-> HeldPoll(v, HeldSides[v]).item]
    /\ channel = [v \in Venues |-> <<>>]
    /\ aevo_prices = NoQuote
    /\ dydx_prices = NoQuote
    /\ wallets_initialized = FALSE
    /\ aevo_wallet = WalletNew(config.starting_value)
    /\ dydx_wallet = WalletNew(config.starting_value)
    /\ trade = <<>>
    /\ pc = "running"
    /\ nmsgs = 0
    /\ ntrades = 0
    /\ feed = [v \in Venues |-> FeedNew]

SpecHeld == InitHeld /\ [][Next]_vars

\* venue v's book has a best bid and a best ask
TwoSided(book) == best_bid(book) # <<>> /\ best_ask(book) # <<>>

C24_QuoteOfOneBookState ==
    \A v \in Venues :
        best_prices[v] # NoQuote
            => /\ best_prices[v][1] = best_bid(order_book[v])
               /\ best_prices[v][2] = best_ask(order_book[v])

C26_LoopNeverBlocked == pc # "blocked"

\* C27: every executed trade raises the sum of the two wallets' quote
\* balances, by at least amount*sell_price - amount*buy_price minus the two
\* fees, which is above zero; so from the rebalance on no pass lowers that sum.
C27_QuoteTotalGrows ==
    [][LET before == QuoteTotal(EngineWallet(0), EngineWallet(1))
           after == QuoteTotal(aevo_wallet', dydx_wallet')
       IN  /\ wallets_initialized' => DLe(before, after)
           /\ ntrades' = ntrades + 1 =>
                 /\ DLt(Dec(0), NetProfit(trade'[1]))
                 /\ DLe(DAdd(before, NetProfit(trade'[1])), after)
                 /\ DLt(before, after)]_vars

\* Two trades have been executed, the second with a buy whose fee took its
\* wallet's quote balance to zero, and the two quote balances add up to more
\* than the two rebalanced wallets held
C27_Witness ==
    /\ ntrades = 2
    /\ trade # <<>>
    /\ ~DIsZero(fee(trade[1].buy))
    /\ DIsZero(WalletOf(trade[1].buy).quote)
    /\ DLt(config.starting_value, QuoteTotal(aevo_wallet, dydx_wallet))

=============================================================================
